---------------------------- MODULE Spec2Model ----------------------------
(* A model of internal/zfs/helpers.go of zsys: the in-memory dataset tree,  *)
(* its name registry (allDatasets), the property resolver and mutator, the  *)
(* integrity checks and the origin inversion of a promotion.                *)
(*                                                                          *)
(* Strings are sequences of atoms.  An atom is one character ("/", "@",     *)
(* ":", a digit, a letter) or one keyword that the code only ever compares  *)
(* as a whole ("local", "inherited", "yes", ...).  Concatenation, prefix    *)
(* trimming, LastIndex and slicing work on the atoms as Go's work on bytes. *)
(* A pointer to a Dataset is an address: an index into the sequence heap.   *)
EXTENDS Integers, Sequences, FiniteSets, TLC

VARIABLES
    scan,         \* the libzfs.Dataset handed to newDatasetTree (backend scan)
    heap,         \* every Dataset object ever allocated; a *Dataset is an index
    allDatasets,  \* the registry: name -> *Dataset
    root,         \* the *Dataset returned by newDatasetTree (0: nil)
    pc,           \* "scan": before newDatasetTree; "ready": tree built; "failed"
    last,         \* the last call: its arguments, result and the state before it
    calls,        \* number of mutating calls made so far
    run           \* the setProperty call in flight: its goroutine and its loop

vars == <<scan, heap, allDatasets, root, pc, last, calls, run>>

-----------------------------------------------------------------------------
(* Strings *)

Str(a) == <<a>>

EmptyStr == <<>>

MaxOf(S) == CHOOSE x \in S : \A y \in S : y <= x

\* strings.LastIndex for a one-atom separator: Go's 0-based index, -1 if absent
LastIndex(s, a) ==
    LET I == {i \in 1..Len(s) : s[i] = a}
    IN  IF I = {} THEN -1 ELSE MaxOf(I) - 1

\* s[:i] and s[i:] of Go, i a 0-based index
SliceTo(s, i) == SubSeq(s, 1, i)

SliceFrom(s, i) == SubSeq(s, i + 1, Len(s))

HasPrefix(s, p) == Len(p) <= Len(s) /\ SubSeq(s, 1, Len(p)) = p

TrimPrefix(s, p) == IF HasPrefix(s, p) THEN SliceFrom(s, Len(p)) ELSE s

Digits == <<"0", "1", "2", "3", "4", "5", "6", "7", "8", "9">>

IsDigit(a) == \E i \in 1..10 : Digits[i] = a

DigitVal(a) == (CHOOSE i \in 1..10 : Digits[i] = a) - 1

RECURSIVE DigitsVal(_)
DigitsVal(s) ==
    IF s = <<>> THEN 0
    ELSE 10 * DigitsVal(SubSeq(s, 1, Len(s) - 1)) + DigitVal(s[Len(s)])

\* strconv.Atoi: an optional sign and at least one digit, nothing else
Atoi(s) ==
    LET body == IF s # <<>> /\ s[1] \in {"-", "+"} THEN Tail(s) ELSE s
        neg  == s # <<>> /\ s[1] = "-"
    IN  IF body = <<>> \/ \E i \in 1..Len(body) : ~IsDigit(body[i])
        THEN [ok |-> FALSE, val |-> 0]
        ELSE [ok |-> TRUE,
              val |-> IF neg THEN 0 - DigitsVal(body) ELSE DigitsVal(body)]

RECURSIVE NatToStr(_)
NatToStr(n) ==
    IF n < 10 THEN <<Digits[n + 1]>>
    ELSE NatToStr(n \div 10) \o <<Digits[(n % 10) + 1]>>

\* strconv.Itoa
Itoa(n) == IF n < 0 THEN <<"-">> \o NatToStr(0 - n) ELSE NatToStr(n)

\* the components of a path between its "/" atoms (empty ones included)
RECURSIVE SplitSlash(_)
SplitSlash(s) ==
    LET I == {i \in 1..Len(s) : s[i] = "/"}
    IN  IF I = {} THEN <<s>>
        ELSE LET i == MaxOf(I)
             IN  Append(SplitSlash(SubSeq(s, 1, i - 1)), SubSeq(s, i + 1, Len(s)))

\* filepath.Clean's pass over the components: "" and "." are dropped, ".."
\* removes the component before it (a rooted path cannot go above the root)
RECURSIVE CleanComps(_, _, _)
CleanComps(comps, acc, rooted) ==
    IF comps = <<>> THEN acc
    ELSE LET c == Head(comps)
             nacc == IF c = <<>> \/ c = <<".">> THEN acc
                     ELSE IF c = <<".", ".">>
                          THEN IF acc # <<>> /\ acc[Len(acc)] # <<".", ".">>
                               THEN SubSeq(acc, 1, Len(acc) - 1)
                               ELSE IF rooted THEN acc ELSE Append(acc, c)
                          ELSE Append(acc, c)
         IN  CleanComps(Tail(comps), nacc, rooted)

RECURSIVE JoinSlash(_)
JoinSlash(comps) ==
    IF comps = <<>> THEN <<>>
    ELSE IF Len(comps) = 1 THEN comps[1]
    ELSE comps[1] \o <<"/">> \o JoinSlash(Tail(comps))

\* filepath.Clean
Clean(p) ==
    IF p = <<>> THEN <<".">>
    ELSE LET rooted == p[1] = "/"
             body   == JoinSlash(CleanComps(SplitSlash(p), <<>>, rooted))
         IN  IF rooted THEN <<"/">> \o body
             ELSE IF body = <<>> THEN <<".">> ELSE body

\* filepath.Join of two elements: empty elements are ignored, the rest is
\* joined with "/" and cleaned; all empty gives ""
FilepathJoin(a, b) ==
    IF a = <<>> /\ b = <<>> THEN <<>>
    ELSE IF a = <<>> THEN Clean(b)
    ELSE IF b = <<>> THEN Clean(a)
    ELSE Clean(a \o <<"/">> \o b)

-----------------------------------------------------------------------------
(* Property names and the backend's dataset handle (libzfs.Dataset) *)

CanmountProp == "canmount"

SnapshotCanmountProp == "com.ubuntu.zsys:canmount"

MountPointProp == "mountpoint"

SnapshotMountpointProp == "com.ubuntu.zsys:mountpoint"

BootfsProp == "com.ubuntu.zsys:bootfs"

LastUsedProp == "com.ubuntu.zsys:last-used"

BootfsDatasetsProp == "com.ubuntu.zsys:bootfs-datasets"

LastBootedKernelProp == "com.ubuntu.zsys:last-booted-kernel"

\* the names stringToProp accepts
PropNames ==
    {CanmountProp, SnapshotCanmountProp, MountPointProp, SnapshotMountpointProp,
     BootfsProp, LastUsedProp, BootfsDatasetsProp, LastBootedKernelProp}

\* the user properties a backend handle answers GetUserProperty for
UserPropNames == PropNames \ {CanmountProp, MountPointProp}

\* libzfs.Prop values; EmptyProp is the zero value ("var empty libzfs.Prop")
EmptyProp == "empty"

DatasetPropName == "name"

DatasetPropMountpoint == "mountpoint"

DatasetPropCanmount == "canmount"

DatasetPropMounted == "mounted"

DatasetPropOrigin == "origin"

DatasetPropCreation == "creation"

\* libzfs.Property
Property(v, s) == [Value |-> v, Source |-> s]

\* dZFS.IsSnapshot()
ZIsSnapshot(dZFS) == dZFS.Type = "snapshot"

\* the simplified sources the model stores
SrcLocal == Str("local")

SrcDefault == Str("default")

SrcInherited == Str("inherited")

-----------------------------------------------------------------------------
(* getUserPropertyFromSys and RefreshProperties *)

\* value, source and error of one user property read from the backend
getUserPropertyFromSys(prop, dZFS) ==
    IF prop \in dZFS.Failing
    THEN [value |-> EmptyStr, source |-> EmptyStr, err |-> TRUE]
    ELSE LET p == dZFS.UserProperties[prop] IN
         IF p.Value = Str("-") /\ (p.Source = Str("-") \/ p.Source = Str("none"))
         THEN [value |-> EmptyStr, source |-> EmptyStr, err |-> FALSE]
         ELSE IF ZIsSnapshot(dZFS) /\ p.Source # SrcLocal
         THEN [value |-> EmptyStr, source |-> EmptyStr, err |-> FALSE]
         ELSE IF ZIsSnapshot(dZFS) /\ LastIndex(p.Value, ":") < 0
         THEN [value |-> EmptyStr, source |-> EmptyStr, err |-> FALSE]
         ELSE LET idx    == LastIndex(p.Value, ":")
                  value  == IF ZIsSnapshot(dZFS) THEN SliceTo(p.Value, idx)
                            ELSE p.Value
                  source == IF ZIsSnapshot(dZFS) THEN SliceFrom(p.Value, idx + 1)
                            ELSE p.Source
              IN  [value  |-> value,
                   source |-> IF source # SrcLocal /\ source # SrcDefault
                              THEN SrcInherited ELSE source,
                   err    |-> FALSE]

\* lines 62-69: the simplified source of mountpoint
SimplifyMountpointSource(s) ==
    IF s = SrcLocal THEN SrcLocal
    ELSE IF s = SrcDefault THEN EmptyStr
    ELSE SrcInherited

\* lines 71-82: the simplified source of canmount
SimplifyCanMountSource(s) ==
    IF s = SrcLocal THEN SrcLocal ELSE EmptyStr

\* d.RefreshProperties(ctx, dZFS): the refreshed dataset and whether it failed
RefreshProperties(d, dZFS) ==
    LET snapMp == getUserPropertyFromSys(SnapshotMountpointProp, dZFS)
        snapCm == getUserPropertyFromSys(SnapshotCanmountProp, dZFS)
        mp     == dZFS.Properties[DatasetPropMountpoint]
        trimmed == TrimPrefix(mp.Value, dZFS.Altroot)
        mountpoint == IF d.IsSnapshot THEN snapMp.value
                      ELSE IF trimmed = EmptyStr THEN Str("/") ELSE trimmed
        sourceMountPoint == IF d.IsSnapshot THEN snapMp.source ELSE mp.Source
        cm     == dZFS.Properties[DatasetPropCanmount]
        canMount == IF d.IsSnapshot THEN snapCm.value ELSE cm.Value
        sourceCanMount == IF d.IsSnapshot THEN snapCm.source ELSE cm.Source
        mounted == ~d.IsSnapshot
                   /\ dZFS.Properties[DatasetPropMounted].Value = Str("yes")
        poolErr == ~d.IsSnapshot /\ "Pool" \in dZFS.Failing
        bfs    == getUserPropertyFromSys(BootfsProp, dZFS)
        luUser == getUserPropertyFromSys(LastUsedProp, dZFS)
        luErr  == ~d.IsSnapshot /\ luUser.err
        lu0    == IF d.IsSnapshot THEN dZFS.Properties[DatasetPropCreation].Value
                  ELSE luUser.value
        lu     == IF lu0 = EmptyStr THEN Str("0") ELSE lu0
        lastUsed == Atoi(lu)
        srcLastUsed == IF d.IsSnapshot THEN EmptyStr ELSE luUser.source
        lbk    == getUserPropertyFromSys(LastBootedKernelProp, dZFS)
        bfd    == getUserPropertyFromSys(BootfsDatasetsProp, dZFS)
        err    == poolErr \/ bfs.err \/ luErr \/ ~lastUsed.ok \/ lbk.err \/ bfd.err
    IN  IF err THEN [d |-> d, err |-> TRUE]
        ELSE [d |-> [d EXCEPT
                       !.Mountpoint = mountpoint,
                       !.CanMount = canMount,
                       !.Mounted = mounted,
                       !.BootFS = (bfs.value = Str("yes")),
                       !.LastUsed = lastUsed.val,
                       !.LastBootedKernel = lbk.value,
                       !.BootfsDatasets = bfd.value,
                       !.Origin = dZFS.Properties[DatasetPropOrigin].Value,
                       !.sources = [Mountpoint |-> SimplifyMountpointSource(sourceMountPoint),
                                    CanMount |-> SimplifyCanMountSource(sourceCanMount),
                                    BootFS |-> bfs.source,
                                    LastUsed |-> srcLastUsed,
                                    LastBootedKernel |-> lbk.source,
                                    BootfsDatasets |-> bfd.source]],
              err |-> FALSE]

-----------------------------------------------------------------------------
(* newDatasetTree *)

\* the zero DatasetProp of a Dataset literal
ZeroSources ==
    [Mountpoint |-> EmptyStr, CanMount |-> EmptyStr, BootFS |-> EmptyStr,
     LastUsed |-> EmptyStr, LastBootedKernel |-> EmptyStr,
     BootfsDatasets |-> EmptyStr]

\* node := Dataset{Name: name, IsSnapshot: dZFS.IsSnapshot(), dZFS: dZFS}
NewDataset(dZFS) ==
    [Name |-> dZFS.Properties[DatasetPropName].Value,
     IsSnapshot |-> ZIsSnapshot(dZFS),
     dZFS |-> dZFS,
     children |-> <<>>,
     Mountpoint |-> EmptyStr, CanMount |-> EmptyStr, Mounted |-> FALSE,
     BootFS |-> FALSE, LastUsed |-> 0, LastBootedKernel |-> EmptyStr,
     BootfsDatasets |-> EmptyStr, Origin |-> EmptyStr,
     sources |-> ZeroSources]

\* line 224: allDatasets[node.Name] = &node
Register(reg, name, addr) == (name :> addr) @@ reg

\* a builder that skips volumes only
SkippedVolumesOnly(dZFS) == dZFS.Type = "volume"

\* whether newDatasetTree skips the handle (line 186)
Skipped(dZFS) == dZFS.Type = "volume" \/ dZFS.Type = "bookmark"

\* newDatasetTree(ctx, dZFS, allDatasets) on the heap h and the registry reg:
\* the returned pointer (0 for nil), the error, and the heap and registry
\* after the call.  scanChildren is the loop of lines 202-219 from child i on.
RECURSIVE newDatasetTree(_, _, _)
RECURSIVE scanChildren(_, _, _, _, _)
newDatasetTree(dZFS, h, reg) ==
    IF Skipped(dZFS) THEN [node |-> 0, err |-> FALSE, heap |-> h, reg |-> reg]
    ELSE LET r == RefreshProperties(NewDataset(dZFS), dZFS) IN
         IF r.err THEN [node |-> 0, err |-> TRUE, heap |-> h, reg |-> reg]
         ELSE LET addr == Len(h) + 1
                  cs   == scanChildren(dZFS.Children, 1, <<>>, Append(h, r.d), reg)
              IN  IF cs.err
                  THEN [node |-> 0, err |-> TRUE, heap |-> cs.heap, reg |-> cs.reg]
                  ELSE [node |-> addr, err |-> FALSE,
                        heap |-> [cs.heap EXCEPT
                                    ![addr].children = cs.children,
                                    ![addr].dZFS.Children = <<>>],
                        reg  |-> Register(cs.reg, r.d.Name, addr)]

scanChildren(zs, i, children, h, reg) ==
    IF i > Len(zs)
    THEN [children |-> children, err |-> FALSE, heap |-> h, reg |-> reg]
    ELSE LET c == newDatasetTree(zs[i], h, reg) IN
         IF c.err
         THEN [children |-> children, err |-> TRUE, heap |-> c.heap, reg |-> c.reg]
         ELSE scanChildren(zs, i + 1,
                           IF c.node = 0 THEN children ELSE Append(children, c.node),
                           c.heap, c.reg)

-----------------------------------------------------------------------------
(* Walking the tree *)

SeqRange(q) == {q[i] : i \in 1..Len(q)}

\* the nodes of the subtree of a (a included), walking children on heap h
RECURSIVE Subtree(_, _)
Subtree(h, a) ==
    IF a = 0 THEN {}
    ELSE {a} \cup UNION {Subtree(h, c) : c \in SeqRange(h[a].children)}

\* the strict descendants of a
Descendants(h, a) == Subtree(h, a) \ {a}

\* the names held by the nodes of the tree under r
TreeNames(h, r) == {h[a].Name : a \in Subtree(h, r)}

EmptyReg == [n \in {} |-> 0]

NoCall == [op |-> "none"]

\* no setProperty call is in flight
NoRun == [state |-> "idle"]

-----------------------------------------------------------------------------
(* Backend scans *)

Unset == Property(Str("-"), Str("-"))

NoUserProperties == [p \in UserPropNames |-> Unset]

\* a libzfs.Dataset as a scan returns it
ZHandle(type, name, mp, cm, origin, creation, user, failing, children) ==
    [Type |-> type,
     Properties |-> [name |-> Property(name, Str("-")),
                     mountpoint |-> mp,
                     canmount |-> cm,
                     mounted |-> Property(Str("no"), Str("-")),
                     origin |-> Property(origin, Str("-")),
                     creation |-> Property(creation, Str("-"))],
     UserProperties |-> user,
     Failing |-> failing,
     Altroot |-> EmptyStr,
     Children |-> children]

ZTypes == {"filesystem", "snapshot", "volume", "bookmark"}

\* the name of a child of parent: <parent>/x, <parent>@x or <parent>#x
ChildName(parent, type, x) ==
    parent \o (IF type = "snapshot" THEN <<"@", x>>
               ELSE IF type = "bookmark" THEN <<"#", x>>
               ELSE <<"/", x>>)

\* what the backend can hold under a handle of type pt
MayHold(pt, ct) ==
    IF pt = "filesystem" THEN TRUE
    ELSE IF pt = "volume" THEN ct \in {"snapshot", "bookmark"}
    ELSE FALSE

\* the failure injected at slot i: a backend read error, a non-integer
\* last-used value, or a pool lookup error
SlotFailing(fail, i) ==
    IF fail.slot # i THEN {}
    ELSE IF fail.kind = "userprop" THEN {BootfsProp}
    ELSE IF fail.kind = "pool" THEN {"Pool"}
    ELSE {}

SlotUser(type, fail, i) ==
    IF type = "snapshot"
    THEN [NoUserProperties EXCEPT
            ![SnapshotMountpointProp] = Property(<<"/", "m", ":", "local">>, SrcLocal),
            ![SnapshotCanmountProp] = Property(<<"on", ":">>, SrcLocal)]
    ELSE IF fail.slot = i /\ fail.kind = "atoi"
    THEN [NoUserProperties EXCEPT ![LastUsedProp] = Property(Str("x"), SrcLocal)]
    ELSE [NoUserProperties EXCEPT ![LastUsedProp] = Property(<<"4", "2">>, SrcLocal)]

SlotHandle(type, name, fail, i, children) ==
    ZHandle(type, name,
            Property(<<"/", "m">>, IF i = 0 THEN SrcLocal ELSE Str("inherited from p")),
            Property(Str("on"), SrcDefault),
            EmptyStr, <<"7">>, SlotUser(type, fail, i), SlotFailing(fail, i), children)

\* the scan of a pool p with the slots a, b, c under it, d and e under a and
\* f under b; t gives each slot's type, "" for a slot that is not there
ShapeScan(t, fail) ==
    LET nP == Str("p")
        nA == ChildName(nP, t[1], "a")
        nB == ChildName(nP, t[2], "b")
        nC == ChildName(nP, t[3], "c")
        kids(q) == SelectSeq(q, LAMBDA z : z.Type # "")
        hD == SlotHandle(t[4], ChildName(nA, t[4], "d"), fail, 4, <<>>)
        hE == SlotHandle(t[5], ChildName(nA, t[5], "e"), fail, 5, <<>>)
        hF == SlotHandle(t[6], ChildName(nB, t[6], "f"), fail, 6, <<>>)
        hA == SlotHandle(t[1], nA, fail, 1, kids(<<hD, hE>>))
        hB == SlotHandle(t[2], nB, fail, 2, kids(<<hF>>))
        hC == SlotHandle(t[3], nC, fail, 3, <<>>)
    IN  SlotHandle(t[7], nP, fail, 0, kids(<<hA, hB, hC>>))

SlotTypes == [1..7 -> ZTypes \cup {""}]

\* the type assignments the backend can hold: the pool root is a filesystem
\* or a volume, and a slot is there only if its parent may hold it
WellShaped(t) ==
    /\ t[7] \in {"filesystem", "volume"}
    /\ \A i \in 1..3 : t[i] # "" /\ MayHold(t[7], t[i])
    /\ \A i \in 4..5 : t[i] = "" \/ MayHold(t[1], t[i])
    /\ t[4] # "" \/ t[5] = ""
    /\ t[6] = "" \/ MayHold(t[2], t[6])

Failures ==
    {[slot |-> 0, kind |-> "none"]}
    \cup {[slot |-> i, kind |-> k] : i \in 0..3, k \in {"userprop", "atoi", "pool"}}

BuildScans == {ShapeScan(t, f) : t \in {u \in SlotTypes : WellShaped(u)}, f \in Failures}

-----------------------------------------------------------------------------
(* The tree builder as an action *)

\* newDatasetTree on the scan, into the (empty) registry
Scan ==
    /\ pc = "scan"
    /\ LET r == newDatasetTree(scan, heap, allDatasets) IN
         /\ heap' = r.heap
         /\ allDatasets' = r.reg
         /\ root' = r.node
         /\ pc' = IF r.err THEN "failed" ELSE "ready"
         /\ last' = [op |-> "newDatasetTree", err |-> r.err]
    /\ UNCHANGED <<scan, calls, run>>

InitBuild ==
    /\ scan \in BuildScans
    /\ heap = <<>>
    /\ allDatasets = EmptyReg
    /\ root = 0
    /\ pc = "scan"
    /\ last = NoCall
    /\ calls = 0
    /\ run = NoRun

NextBuild == Scan

SpecBuild == InitBuild /\ [][NextBuild]_vars

\* the handles of a scan: the handle itself and everything below it
RECURSIVE Handles(_)
Handles(z) == {z} \cup UNION {Handles(z.Children[i]) : i \in 1..Len(z.Children)}

\* the names of the handles newDatasetTree must leave out: volumes, bookmarks
\* and whatever is scanned beneath them
RECURSIVE LeftOut(_)
LeftOut(z) ==
    IF z.Type \in {"volume", "bookmark"}
    THEN {y.Properties[DatasetPropName].Value : y \in Handles(z)}
    ELSE UNION {LeftOut(z.Children[i]) : i \in 1..Len(z.Children)}

\* the registry maps each name of the tree to the node holding it, and
\* nothing else
RegistryIsTree(h, reg, r) ==
    /\ \A a \in Subtree(h, r) : h[a].Name \in DOMAIN reg /\ reg[h[a].Name] = a
    /\ DOMAIN reg = TreeNames(h, r)

\* C2: after newDatasetTree returns successfully, the registry maps the name
\* of every node of the returned tree to that very node (the address reached
\* by walking children from the root), it holds no other name, and no volume,
\* no bookmark and nothing scanned beneath one is in the tree or the registry.
C2_BuildRegistersTree ==
    (pc = "ready" /\ last.op = "newDatasetTree") =>
        /\ RegistryIsTree(heap, allDatasets, root)
        /\ LeftOut(scan) \cap (DOMAIN allDatasets \cup TreeNames(heap, root)) = {}

\* a successful scan of a pool that holds a filesystem with a snapshot and a
\* volume with a snapshot beneath it and a bookmark
C2_Witness ==
    /\ pc = "ready" /\ last.op = "newDatasetTree" /\ root # 0
    /\ Cardinality(Subtree(heap, root)) >= 4
    /\ \E a \in Subtree(heap, root) : heap[a].IsSnapshot /\ a # root
    /\ \E z \in Handles(scan) : z.Type = "volume" /\ z.Children # <<>>
    /\ \E z \in Handles(scan) : z.Type = "bookmark"

-----------------------------------------------------------------------------
(* inverseOrigin *)

\* t.Zfs.findDatasetByName(path): the registry's node for the name, or an error
findDatasetByName(reg, path) ==
    IF path \in DOMAIN reg THEN [d |-> reg[path], err |-> FALSE]
    ELSE [d |-> 0, err |-> TRUE]

\* splitSnapshotName: base and trailing names around the last "@"
splitSnapshotName(name) ==
    LET i == LastIndex(name, "@")
    IN  IF i < 0 THEN <<name, EmptyStr>>
        ELSE <<SliceTo(name, i), SliceFrom(name, i + 1)>>

\* a selection that leaves out the snapshots as old as the base snapshot
MigratesStrictlyOlder(c, base) == c.IsSnapshot /\ c.LastUsed < base.LastUsed

\* lines 487-493: whether child c of oldOrigDataset is collected
Migrates(c, base) == c.IsSnapshot /\ ~(c.LastUsed > base.LastUsed)

\* lines 484-494
snapshotsToMigrate(h, old, base) ==
    SelectSeq(h[old].children, LAMBDA c : Migrates(h[c], h[base]))

\* lines 506-511: j := -1; for j = range children { if children[j] == s { break } }
\* (0-based; a loop that runs to its end leaves j at the last index)
IndexOfChild(children, s) ==
    IF children = <<>> THEN -1
    ELSE LET I == {j \in 1..Len(children) : children[j] = s}
         IN  IF I = {} THEN Len(children) - 1
             ELSE (CHOOSE j \in I : \A k \in I : j <= k) - 1

\* append(children[:j], children[j+1:]...)
RemoveAt(children, j) == SubSeq(children, 1, j) \o SubSeq(children, j + 2, Len(children))

\* delete(allDatasets, name)
Unregister(reg, name) == [n \in DOMAIN reg \ {name} |-> reg[n]]

\* lines 497-519: one turn of the migration loop, for snapshot s
migrateOne(st, old, new, s) ==
    LET oldName == st.heap[s].Name
        n  == splitSnapshotName(oldName)[2]
        h1 == [st.heap EXCEPT ![s].Name = st.heap[new].Name \o <<"@">> \o n]
        h2 == [h1 EXCEPT ![new].children = Append(@, s)]
        j  == IndexOfChild(h2[old].children, s)
    IN  IF j < 0 THEN [heap |-> h2, reg |-> st.reg, err |-> TRUE]
        ELSE [heap |-> [h2 EXCEPT ![old].children = RemoveAt(@, j)],
              reg  |-> Unregister(Register(st.reg, h2[s].Name, s), oldName),
              err  |-> FALSE]

RECURSIVE migrateAll(_, _, _, _, _)
migrateAll(st, old, new, toMigrate, i) ==
    IF i > Len(toMigrate) \/ st.err THEN st
    ELSE migrateAll(migrateOne(st, old, new, toMigrate[i]), old, new, toMigrate, i + 1)

\* an inversion that remembers the base snapshot's name from before the loop
DemotedOriginStale(before, after, base) == before[base].Name

\* line 522: baseSnapshot.Name, read after the migration loop
DemotedOrigin(before, after, base) == after[base].Name

\* t.inverseOrigin(oldOrigDataset, newOrigDataset) on heap h and registry reg
inverseOrigin(h, reg, old, new) ==
    LET b == findDatasetByName(reg, h[new].Origin) IN
    IF b.err THEN [heap |-> h, reg |-> reg, err |-> TRUE]
    ELSE LET m == migrateAll([heap |-> h, reg |-> reg, err |-> FALSE], old, new,
                             snapshotsToMigrate(h, old, b.d), 1)
         IN  IF m.err THEN m
             ELSE [heap |-> [m.heap EXCEPT
                               ![old].Origin = DemotedOrigin(h, m.heap, b.d),
                               ![new].Origin = EmptyStr],
                   reg  |-> m.reg,
                   err  |-> FALSE]

MaxPromotions == 2

\* the datasets a promotion can name: the filesystems of the registry
Filesystems(h, reg) == {reg[n] : n \in DOMAIN reg} \cap {a \in 1..Len(h) : ~h[a].IsSnapshot}

\* one call of inverseOrigin, on any two distinct filesystems
InverseOrigin ==
    /\ pc = "ready"
    /\ calls < MaxPromotions
    /\ \E old \in Filesystems(heap, allDatasets), new \in Filesystems(heap, allDatasets) :
         /\ old # new
         /\ LET r == inverseOrigin(heap, allDatasets, old, new) IN
              /\ heap' = r.heap
              /\ allDatasets' = r.reg
              /\ last' = [op |-> "inverseOrigin", old |-> old, new |-> new,
                          err |-> r.err, heap |-> heap, reg |-> allDatasets]
    /\ calls' = calls + 1
    /\ UNCHANGED <<scan, root, pc, run>>

\* a filesystem handle and a snapshot handle of the scans below
FsHandle(name, mp, mpSource, origin, user, children) ==
    ZHandle("filesystem", name, Property(mp, mpSource), Property(Str("on"), SrcDefault),
            origin, <<"5">>, user, {}, children)

SnapHandle(name, creation, user) ==
    ZHandle("snapshot", name, Property(Str("-"), Str("-")), Property(Str("-"), Str("-")),
            EmptyStr, creation, user, {}, <<>>)

InheritedFrom(name) == <<"inherited from ">> \o name

\* a pool p holding base b with the snapshots b@1 (created at lu1), b@2 (30)
\* and b@3 (50), a clone c of b@co that owns the snapshot c@cs if cs is not
\* "", and a filesystem k that is a clone of b@ko if ko is not ""
PromoteScan(co, cs, ko, lu1) ==
    LET nP == Str("p")
        nB == <<"p", "/", "b">>
        nC == <<"p", "/", "c">>
        nK == <<"p", "/", "k">>
        snap(n, leaf, cr) == SnapHandle(n \o <<"@", leaf>>, cr, NoUserProperties)
        fs(n, origin, children) ==
            FsHandle(n, <<"/">> \o SubSeq(n, 3, 3), InheritedFrom(nP), origin,
                     NoUserProperties, children)
    IN  FsHandle(nP, Str("/"), SrcLocal, EmptyStr, NoUserProperties,
                 << fs(nB, EmptyStr, << snap(nB, "1", lu1), snap(nB, "2", <<"3", "0">>),
                                        snap(nB, "3", <<"5", "0">>) >>),
                    fs(nC, nB \o <<"@", co>>,
                       IF cs = "" THEN <<>> ELSE << snap(nC, cs, <<"6", "0">>) >>),
                    fs(nK, IF ko = "" THEN EmptyStr ELSE nB \o <<"@", ko>>, <<>>) >>)

PromoteScans ==
    {PromoteScan(co, cs, ko, lu1) :
        co \in {"1", "2", "3"}, cs \in {"", "1", "9"}, ko \in {"", "1", "2"},
        lu1 \in {<<"1", "0">>, <<"3", "0">>}}

\* the state after newDatasetTree has scanned z into an empty registry
Built(z) ==
    LET r == newDatasetTree(z, <<>>, EmptyReg)
    IN  /\ scan = z
        /\ heap = r.heap
        /\ allDatasets = r.reg
        /\ root = r.node
        /\ pc = "ready"
        /\ last = NoCall
        /\ calls = 0
        /\ run = NoRun

InitPromote == \E z \in PromoteScans : Built(z)

NextPromote == InverseOrigin

SpecPromote == InitPromote /\ [][NextPromote]_vars

\* the registry and the tree are in bijection
Bijective(h, reg, r) ==
    /\ DOMAIN reg = TreeNames(h, r)
    /\ \A a, b \in Subtree(h, r) : a # b => h[a].Name # h[b].Name
    /\ \A n \in DOMAIN reg : reg[n] \in Subtree(h, r) /\ h[reg[n]].Name = n

\* C1: in every state reached by successful inverseOrigin calls from a freshly
\* built tree the registry and the tree are in bijection: the registry's keys
\* are the names held by the nodes of the tree, no two nodes hold the same
\* name, and registry[n] is a node named n.
C1_RegistryBijective ==
    (pc = "ready" /\ (last.op = "inverseOrigin" => ~last.err)) =>
        Bijective(heap, allDatasets, root)

\* the leaf of a snapshot name: what follows its last "@"
LeafOf(name) ==
    LET i == CHOOSE i \in 1..Len(name) :
                 name[i] = "@" /\ \A k \in (i + 1)..Len(name) : name[k] # "@"
    IN  SubSeq(name, i + 1, Len(name))

\* the base snapshot of the last inverseOrigin call, resolved before the call
LastBase == last.reg[last.heap[last.new].Origin]

\* the snapshots the last inverseOrigin call had to move: the direct snapshot
\* children of oldOrigin not used after the base snapshot
LastMoved ==
    {c \in SeqRange(last.heap[last.old].children) :
        last.heap[c].IsSnapshot /\ last.heap[c].LastUsed <= last.heap[LastBase].LastUsed}

PromotionDone == pc = "ready" /\ last.op = "inverseOrigin" /\ ~last.err

\* C3: after a successful inverseOrigin(oldOrigin, newOrigin) the nodes that
\* moved are exactly the direct snapshot children of oldOrigin whose lastUsed
\* was at most the base snapshot's: each is the same node with the same leaf,
\* now a child of newOrigin named newOrigin.Name@leaf and no child of
\* oldOrigin; the other children of oldOrigin and the children newOrigin had
\* stay where they were, and no other node changes its name.
C3_ExactlyOldSnapshotsMove ==
    PromotionDone =>
        LET pre == last.heap
            old == last.old
            new == last.new
        IN  /\ \A c \in LastMoved :
                 /\ c \in SeqRange(heap[new].children)
                 /\ c \notin SeqRange(heap[old].children)
                 /\ heap[c].Name = pre[new].Name \o <<"@">> \o LeafOf(pre[c].Name)
                 /\ LeafOf(heap[c].Name) = LeafOf(pre[c].Name)
                 /\ [heap[c] EXCEPT !.Name = pre[c].Name] = pre[c]
            /\ heap[old].children =
                 SelectSeq(pre[old].children, LAMBDA c : c \notin LastMoved)
            /\ SubSeq(heap[new].children, 1, Len(pre[new].children)) = pre[new].children
            /\ SeqRange(heap[new].children) = SeqRange(pre[new].children) \cup LastMoved
            /\ \A a \in 1..Len(heap) : a \notin LastMoved => heap[a].Name = pre[a].Name

\* a promotion that moved some snapshots of oldOrigin (one of them as old as
\* the base snapshot, without being it), left a later one behind, and whose
\* newOrigin already had a snapshot of its own
C3_Witness ==
    /\ PromotionDone
    /\ \E c \in LastMoved :
         c # LastBase /\ last.heap[c].LastUsed = last.heap[LastBase].LastUsed
    /\ \E c \in SeqRange(heap[last.old].children) : heap[c].IsSnapshot
    /\ last.heap[last.new].children # <<>>

\* C4: after a successful inverseOrigin(oldOrigin, newOrigin) whose base
\* snapshot was a snapshot of oldOrigin, newOrigin.Origin is empty and
\* oldOrigin.Origin is the base snapshot's name after the migration:
\* newOrigin.Name@<leaf of the base snapshot>.
C4_OriginsInverted ==
    (/\ PromotionDone
     /\ LastBase \in SeqRange(last.heap[last.old].children)
     /\ last.heap[LastBase].IsSnapshot) =>
        /\ heap[last.new].Origin = EmptyStr
        /\ heap[last.old].Origin =
             last.heap[last.new].Name \o <<"@">> \o LeafOf(last.heap[LastBase].Name)

\* promoting clone p/c (origin p/b@2) over base p/b left p/b.Origin = p/c@2
C4_Witness ==
    /\ PromotionDone
    /\ last.heap[last.old].Name = <<"p", "/", "b">>
    /\ last.heap[last.new].Name = <<"p", "/", "c">>
    /\ last.heap[last.new].Origin = <<"p", "/", "b", "@", "2">>
    /\ heap[last.old].Origin = <<"p", "/", "c", "@", "2">>
    /\ heap[last.new].Origin = EmptyStr

\* C5: in every state reached by successful inverseOrigin calls, every
\* dataset of the registry with a non-empty Origin has an Origin that is a
\* key of the registry and maps to a snapshot node.
C5_OriginsResolve ==
    (pc = "ready" /\ (last.op = "inverseOrigin" => ~last.err)) =>
        \A n \in DOMAIN allDatasets :
            LET d == heap[allDatasets[n]]
            IN  d.Origin # EmptyStr =>
                    /\ d.Origin \in DOMAIN allDatasets
                    /\ heap[allDatasets[d.Origin]].IsSnapshot

-----------------------------------------------------------------------------
(* stringToProp, getPropertyFromName and setProperty *)

\* stringToProp's nativeProp: set for canmount and mountpoint on a dataset
\* that is no snapshot
NativeProp(d, name) ==
    IF name = CanmountProp /\ ~d.IsSnapshot THEN DatasetPropCanmount
    ELSE IF name = MountPointProp /\ ~d.IsSnapshot THEN DatasetPropMountpoint
    ELSE EmptyProp

\* stringToProp's userProp
UserProp(d, name) ==
    IF name = CanmountProp /\ d.IsSnapshot THEN SnapshotCanmountProp
    ELSE IF name = MountPointProp /\ d.IsSnapshot THEN SnapshotMountpointProp
    ELSE name

\* "value" points into the Dataset for the string properties; for bootfs and
\* last-used it points to a string local to stringToProp
LocalCopy == "(local copy)"

ValueField(name) ==
    CASE name \in {CanmountProp, SnapshotCanmountProp} -> "CanMount"
      [] name \in {MountPointProp, SnapshotMountpointProp} -> "Mountpoint"
      [] name = BootfsDatasetsProp -> "BootfsDatasets"
      [] name = LastBootedKernelProp -> "LastBootedKernel"
      [] name \in {BootfsProp, LastUsedProp} -> LocalCopy

\* the field of d.sources that simplifiedSource points to
SourceField(name) ==
    CASE name \in {CanmountProp, SnapshotCanmountProp} -> "CanMount"
      [] name \in {MountPointProp, SnapshotMountpointProp} -> "Mountpoint"
      [] name = BootfsProp -> "BootFS"
      [] name = LastUsedProp -> "LastUsed"
      [] name = BootfsDatasetsProp -> "BootfsDatasets"
      [] name = LastBootedKernelProp -> "LastBootedKernel"

\* d.stringToProp(name): the two property keys, where value points and what
\* it holds, where simplifiedSource points and what it holds
stringToProp(d, name) ==
    [nativeProp  |-> NativeProp(d, name),
     userProp    |-> UserProp(d, name),
     field       |-> ValueField(name),
     value       |-> CASE name = BootfsProp -> IF d.BootFS THEN Str("yes") ELSE Str("no")
                       [] name = LastUsedProp -> Itoa(d.LastUsed)
                       [] OTHER -> d[ValueField(name)],
     sourceField |-> SourceField(name),
     source      |-> d.sources[SourceField(name)]]

\* d.getPropertyFromName(name)
getPropertyFromName(d, name) ==
    [value |-> stringToProp(d, name).value, source |-> stringToProp(d, name).source]

\* *destV = v
StoreValue(d, field, v) == IF field = LocalCopy THEN d ELSE [d EXCEPT ![field] = v]

\* lines 312-321 when the backend accepts the write: the native property and
\* its cache entry, or the user property (packed value:source on a snapshot),
\* become local to the dataset
BackendWrite(d, name, value, source) ==
    LET sp == stringToProp(d, name)
        v  == IF d.IsSnapshot THEN value \o <<":">> \o source ELSE value
    IN  IF sp.nativeProp # EmptyProp
        THEN [d EXCEPT !.dZFS.Properties[sp.nativeProp] = Property(value, SrcLocal)]
        ELSE [d EXCEPT !.dZFS.UserProperties[sp.userProp] = Property(v, SrcLocal)]

\* a refresh that parses the value given by the caller
RootLastUsedOfValue(d, value) ==
    Atoi(IF value = EmptyStr THEN Str("0") ELSE value)

\* lines 339-342: *destV = "0" for an empty value, then Atoi(*destV), destV
\* being stringToProp's local copy of the dataset's current LastUsed
RootLastUsed(d, value) ==
    Atoi(IF value = EmptyStr THEN Str("0") ELSE stringToProp(d, LastUsedProp).value)

\* lines 329-353: the refresh of the dataset object itself
refreshRoot(d, name, value, source) ==
    LET sp == stringToProp(d, name)
        lu == RootLastUsed(d, value)
        d1 == CASE name = BootfsProp -> [d EXCEPT !.BootFS = (value = Str("yes"))]
                [] name = LastUsedProp -> [d EXCEPT !.LastUsed = lu.val]
                [] OTHER -> StoreValue(d, sp.field, value)
    IN  IF name = LastUsedProp /\ ~lu.ok THEN [d |-> d, err |-> TRUE]
        ELSE [d |-> [d1 EXCEPT !.sources[sp.sourceField] = source], err |-> FALSE]

\* a traversal that takes every child that is no snapshot
InheritsAlways(c, name) == ~c.IsSnapshot

\* a traversal that does not leave the snapshots out
InheritsSnapshotsToo(c, name) ==
    LET sp == stringToProp(c, name)
    IN  ~(sp.source # SrcInherited
          /\ ~(sp.source = EmptyStr /\ sp.nativeProp = EmptyProp))

\* lines 364-371: whether child c is sent on the channel (and descended into)
Inherits(c, name) ==
    LET sp == stringToProp(c, name)
    IN  /\ ~c.IsSnapshot
        /\ ~(sp.source # SrcInherited
             /\ ~(sp.source = EmptyStr /\ sp.nativeProp = EmptyProp))

\* getInheritedChildren(d): the datasets sent on the channel, in order
RECURSIVE getInheritedChildren(_, _, _)
getInheritedChildren(h, d, name) ==
    LET kids == h[d].children
        sent[i \in 0..Len(kids)] ==
            IF i = 0 THEN <<>>
            ELSE sent[i - 1] \o
                 (IF Inherits(h[kids[i]], name)
                  THEN <<kids[i]>> \o getInheritedChildren(h, kids[i], name)
                  ELSE <<>>)
    IN  sent[Len(kids)]

\* a rewrite relative to the mountpoint the root holds after its own refresh
CascadeMountpointFromNew(current, value, oldMountPoint) ==
    FilepathJoin(value, TrimPrefix(current, value))

\* line 412
CascadeMountpoint(current, value, oldMountPoint) ==
    FilepathJoin(value, TrimPrefix(current, oldMountPoint))

\* lines 382-416: one turn of the consumer loop, for the received dataset c
applyToChild(c, name, value, oldMountPoint) ==
    LET sp == stringToProp(c, name)
        c1 == IF sp.nativeProp # EmptyProp
              THEN [c EXCEPT !.dZFS.Properties[sp.nativeProp] =
                                 Property(value, c.dZFS.Properties[sp.nativeProp].Source)]
              ELSE c
        lu == Atoi(IF value = EmptyStr THEN Str("0") ELSE value)
        c2 == CASE name = BootfsProp -> [c1 EXCEPT !.BootFS = (value = Str("yes"))]
                [] name = LastUsedProp -> [c1 EXCEPT !.LastUsed = lu.val]
                [] name = MountPointProp ->
                     StoreValue(c1, sp.field, CascadeMountpoint(sp.value, value, oldMountPoint))
                [] OTHER -> StoreValue(c1, sp.field, value)
    IN  IF name = LastUsedProp /\ ~lu.ok THEN [d |-> c1, panic |-> TRUE]
        ELSE [d |-> [c2 EXCEPT !.sources[sp.sourceField] = SrcInherited], panic |-> FALSE]

\* the consumer loop over the datasets received, from the i-th on
RECURSIVE applyAll(_, _, _, _, _, _)
applyAll(h, received, i, name, value, oldMountPoint) ==
    IF i > Len(received) THEN [heap |-> h, panic |-> FALSE]
    ELSE LET r == applyToChild(h[received[i]], name, value, oldMountPoint) IN
         IF r.panic THEN [heap |-> [h EXCEPT ![received[i]] = r.d], panic |-> TRUE]
         ELSE applyAll([h EXCEPT ![received[i]] = r.d], received, i + 1,
                       name, value, oldMountPoint)

\* a call that refreshes the dataset before it looks at the backend's error
AfterFailedWriteRefreshed(h, d, name, value, source) ==
    [h EXCEPT ![d] = refreshRoot(h[d], name, value, source).d]

\* lines 323-325: the backend refused the write, setProperty returns the
\* error and has touched nothing
AfterFailedWrite(h, d, name, value, source) == h

\* d.setProperty(name, value, source) on heap h; backendFails is the outcome
\* of the backend's SetProperty or SetUserProperty
setProperty(h, d, name, value, source, backendFails) ==
    IF backendFails
    THEN [heap |-> AfterFailedWrite(h, d, name, value, source),
          err |-> TRUE, panic |-> FALSE]
    ELSE LET written == BackendWrite(h[d], name, value, source)
             oldMountPoint == IF name = MountPointProp THEN h[d].Mountpoint ELSE EmptyStr
             r == refreshRoot(written, name, value, source)
         IN  IF r.err
             THEN [heap |-> [h EXCEPT ![d] = written], err |-> TRUE, panic |-> FALSE]
             ELSE LET h1 == [h EXCEPT ![d] = r.d]
                      a  == applyAll(h1, getInheritedChildren(h1, d, name), 1,
                                     name, value, oldMountPoint)
                  IN  [heap |-> a.heap, err |-> FALSE, panic |-> a.panic]

-----------------------------------------------------------------------------
(* setProperty as an action *)

\* the names setProperty is called with: the snapshot property names are
\* for snapshots ("this should have been called with SnapshotCanmountProp")
NamesFor(d) ==
    IF d.IsSnapshot THEN PropNames
    ELSE PropNames \ {SnapshotCanmountProp, SnapshotMountpointProp}

\* the values a call may give to each property
ValuesFor(name) ==
    CASE name \in {MountPointProp, SnapshotMountpointProp} -> {<<"/", "new">>, <<"/">>}
      [] name \in {CanmountProp, SnapshotCanmountProp} -> {<<"on">>, <<"noauto">>}
      [] name = BootfsProp -> {<<"yes">>, <<"no">>}
      [] name = LastUsedProp -> {<<>>, <<"9">>, <<"x">>}
      [] OTHER -> {<<>>, <<"z">>}

\* the datasets of the tree
TreeNodes == Subtree(heap, root)

\* one call of setProperty, with a source among sources and a backend that
\* fails or not as outcomes says, while fewer than max calls were made
SetPropertyCall(sources, outcomes, max) ==
    /\ pc = "ready"
    /\ calls < max
    /\ \E d \in TreeNodes, source \in sources, backendFails \in outcomes :
         \E name \in NamesFor(heap[d]) :
           \E value \in ValuesFor(name) :
             LET r == setProperty(heap, d, name, value, source, backendFails) IN
               /\ heap' = r.heap
               /\ pc' = IF r.panic THEN "panic" ELSE "ready"
               /\ last' = [op |-> "setProperty", d |-> d, name |-> name,
                           value |-> value, source |-> source,
                           backendFails |-> backendFails,
                           err |-> r.err, panic |-> r.panic,
                           heap |-> heap, reg |-> allDatasets]
    /\ calls' = calls + 1
    /\ UNCHANGED <<scan, allDatasets, root, run>>

\* the user properties of a filesystem: unset, or set to vals from src
UserOf(isSet, vals, src) ==
    IF ~isSet THEN NoUserProperties
    ELSE [NoUserProperties EXCEPT
            ![BootfsProp] = Property(vals.bootfs, src),
            ![LastUsedProp] = Property(vals.lastUsed, src),
            ![BootfsDatasetsProp] = Property(vals.bootfsDatasets, src),
            ![LastBootedKernelProp] = Property(vals.lastBootedKernel, src)]

\* the properties frozen on a snapshot: each packed value:source and local
FrozenOn(mp, isSet, vals) ==
    LET frozen == [NoUserProperties EXCEPT
                     ![SnapshotMountpointProp] = Property(mp \o <<":", "inherited">>, SrcLocal),
                     ![SnapshotCanmountProp] = Property(<<"on", ":">>, SrcLocal)]
    IN  IF ~isSet THEN frozen
        ELSE [frozen EXCEPT
                ![BootfsProp] = Property(vals.bootfs \o <<":", "inherited">>, SrcLocal),
                ![BootfsDatasetsProp] =
                    Property(vals.bootfsDatasets \o <<":", "inherited">>, SrcLocal),
                ![LastBootedKernelProp] =
                    Property(vals.lastBootedKernel \o <<":", "inherited">>, SrcLocal)]

RootVals ==
    [bootfs |-> <<"yes">>, lastUsed |-> <<"4", "2">>,
     bootfsDatasets |-> <<"x">>, lastBootedKernel |-> <<"k">>]

OverrideVals ==
    [bootfs |-> <<"no">>, lastUsed |-> <<"7">>,
     bootfsDatasets |-> <<"y">>, lastBootedKernel |-> <<"j">>]

\* a pool p mounted at rootMp holding the chain p/a, p/a/b, p/a/b/c, the
\* snapshot p/a@s and the filesystem p/d.  Every filesystem inherits its
\* mountpoint and, when rootSet, the user properties set on p; when bLocal,
\* p/a/b sets its own mountpoint (/custom) and user properties, which p/a/b/c
\* inherits from it.
PropScan(bLocal, rootSet, rootMp) ==
    LET nP == Str("p")
        nA == <<"p", "/", "a">>
        nB == nA \o <<"/", "b">>
        nC == nB \o <<"/", "c">>
        nD == <<"p", "/", "d">>
        mpA == FilepathJoin(rootMp, <<"a">>)
        mpB == IF bLocal THEN <<"/", "custom">> ELSE FilepathJoin(mpA, <<"b">>)
        mpC == FilepathJoin(mpB, <<"c">>)
        mpD == FilepathJoin(rootMp, <<"d">>)
        fromP == UserOf(rootSet, RootVals, InheritedFrom(nP))
        hC == FsHandle(nC, mpC, InheritedFrom(IF bLocal THEN nB ELSE nP), EmptyStr,
                       IF bLocal THEN UserOf(TRUE, OverrideVals, InheritedFrom(nB))
                       ELSE fromP, <<>>)
        hB == FsHandle(nB, mpB, IF bLocal THEN SrcLocal ELSE InheritedFrom(nP), EmptyStr,
                       IF bLocal THEN UserOf(TRUE, OverrideVals, SrcLocal) ELSE fromP,
                       <<hC>>)
        hS == SnapHandle(nA \o <<"@", "s">>, <<"3", "0">>, FrozenOn(mpA, rootSet, RootVals))
        hA == FsHandle(nA, mpA, InheritedFrom(nP), EmptyStr, fromP, <<hS, hB>>)
        hD == FsHandle(nD, mpD, InheritedFrom(nP), EmptyStr, fromP, <<>>)
    IN  FsHandle(nP, rootMp, SrcLocal, EmptyStr, UserOf(rootSet, RootVals, SrcLocal),
                 <<hA, hD>>)

PropScans ==
    {PropScan(bLocal, rootSet, rootMp) :
        bLocal \in BOOLEAN, rootSet \in BOOLEAN, rootMp \in {<<"/">>, <<"/", "r">>}}

MaxSetCalls == 1

InitProp == \E z \in PropScans : Built(z)

\* any call: local or inherited as the source, a backend that may fail
SetPropertyAny == SetPropertyCall({SrcLocal, SrcInherited}, BOOLEAN, MaxSetCalls)

NextProp == SetPropertyAny

SpecProp == InitProp /\ [][NextProp]_vars

MaxLocalCalls == 2

\* successful calls with the source local
SetPropertyLocal == SetPropertyCall({SrcLocal}, {FALSE}, MaxLocalCalls)

NextPropLocal == SetPropertyLocal

SpecPropLocal == InitProp /\ [][NextPropLocal]_vars

-----------------------------------------------------------------------------
(* What a setProperty call must have done *)

\* the last call was setProperty and it returned nil
SetPropertyReturned ==
    pc = "ready" /\ last.op = "setProperty" /\ ~last.err /\ ~last.panic

\* the Dataset field that holds the property called name
FieldOf(name) ==
    CASE name \in {CanmountProp, SnapshotCanmountProp} -> "CanMount"
      [] name \in {MountPointProp, SnapshotMountpointProp} -> "Mountpoint"
      [] name = BootfsProp -> "BootFS"
      [] name = LastUsedProp -> "LastUsed"
      [] name = BootfsDatasetsProp -> "BootfsDatasets"
      [] name = LastBootedKernelProp -> "LastBootedKernel"

\* the form in which the model holds the value v of a property: yes or no
\* for bootfs, the decimal of the parsed integer for last-used (0 for "")
Normalised(name, v) ==
    CASE name = BootfsProp -> IF v = <<"yes">> THEN <<"yes">> ELSE <<"no">>
      [] name = LastUsedProp -> IF v = <<>> THEN <<"0">> ELSE Itoa(Atoi(v).val)
      [] OTHER -> v

\* C6: after setProperty(D, P, v, s) returns without error (v an integer or
\* empty when P is last-used), getPropertyFromName(D, P) is the normalised v
\* and the provenance s; D.LastUsed is the integer parsed from v (0 when v is
\* empty) and D.BootFS is true exactly when v is "yes".
C6_RootMatchesCall ==
    (/\ SetPropertyReturned
     /\ last.name = LastUsedProp => (last.value = <<>> \/ Atoi(last.value).ok)) =>
        LET D == heap[last.d]
            g == getPropertyFromName(D, last.name)
        IN  /\ g.value = Normalised(last.name, last.value)
            /\ g.source = last.source
            /\ last.name = LastUsedProp =>
                 D.LastUsed = (IF last.value = <<>> THEN 0 ELSE Atoi(last.value).val)
            /\ last.name = BootfsProp => (D.BootFS <=> last.value = <<"yes">>)

\* the parent of node a on heap h (0 for a root)
Parent(h, a) ==
    IF \E q \in 1..Len(h) : a \in SeqRange(h[q].children)
    THEN CHOOSE q \in 1..Len(h) : a \in SeqRange(h[q].children)
    ELSE 0

\* whether x, a dataset that is no snapshot, inherited the property before
\* the last call: its provenance was inherited or, for a property with no
\* native counterpart, the empty marker
InheritedBefore(x, name) ==
    LET src == last.heap[x].sources[FieldOf(name)]
    IN  /\ ~last.heap[x].IsSnapshot
        /\ \/ src = <<"inherited">>
           \/ src = <<>> /\ name \notin {CanmountProp, MountPointProp}

\* every node from d (exclusive) down to x (inclusive) inherited the property
RECURSIVE InheritingPath(_, _, _)
InheritingPath(d, x, name) ==
    /\ x # d
    /\ Parent(last.heap, x) # 0
    /\ InheritedBefore(x, name)
    /\ \/ Parent(last.heap, x) = d
       \/ InheritingPath(d, Parent(last.heap, x), name)

\* the descendants the cascade of the last setProperty call has to rewrite
Cascaded == {x \in 1..Len(last.heap) : InheritingPath(last.d, x, last.name)}

\* y is x but for the property called name: its value, its provenance, and
\* the handle's entry for it (of the native property, or of the user property
\* when root says that the backend was written for this dataset)
SameButProperty(x, y, name, isRoot) ==
    LET np == IF name = CanmountProp /\ ~y.IsSnapshot THEN "canmount"
              ELSE IF name = MountPointProp /\ ~y.IsSnapshot THEN "mountpoint"
              ELSE ""
        up == IF name = CanmountProp THEN SnapshotCanmountProp
              ELSE IF name = MountPointProp THEN SnapshotMountpointProp
              ELSE name
        z1 == [x EXCEPT ![FieldOf(name)] = y[FieldOf(name)],
                        !.sources[FieldOf(name)] = y.sources[FieldOf(name)]]
        z2 == IF np # ""
              THEN [z1 EXCEPT !.dZFS.Properties[np] = y.dZFS.Properties[np]]
              ELSE IF isRoot
              THEN [z1 EXCEPT !.dZFS.UserProperties[up] = y.dZFS.UserProperties[up]]
              ELSE z1
    IN  z2 = y

\* C7: setProperty(D, P, v, s) changes the value or provenance of P only on D
\* and on the strict descendants reached from D through datasets that are no
\* snapshots and inherited P before the call; a locally-overridden descendant
\* and everything below it, every snapshot (other than D), every other
\* property of every node, all names, all child lists and the registry are
\* left unchanged.
C7_OnlyInheritingDescendantsChange ==
    last.op = "setProperty" =>
        /\ Len(heap) = Len(last.heap)
        /\ allDatasets = last.reg
        /\ \A a \in 1..Len(heap) :
             IF a = last.d \/ a \in Cascaded
             THEN SameButProperty(last.heap[a], heap[a], last.name, a = last.d)
             ELSE heap[a] = last.heap[a]

\* a call that rewrote a descendant while a dataset below D that had set the
\* property itself, with a child inheriting from it, was passed over
C7_Witness ==
    /\ SetPropertyReturned
    /\ \E x \in Cascaded : heap[x] # last.heap[x]
    /\ \E b \in Descendants(last.heap, last.d) :
         /\ last.heap[b].sources[FieldOf(last.name)] = <<"local">>
         /\ \E c \in SeqRange(last.heap[b].children) :
              last.heap[c].sources[FieldOf(last.name)] = <<"inherited">>

\* the chains root, A, B, C of the last call: each the parent of the next, A
\* inheriting mountpoint, B with mountpoint set locally to /custom and C
\* inheriting from B, when the call was
\* setProperty(root, mountpoint, "/new", "local")
CustomChains ==
    IF /\ SetPropertyReturned
       /\ last.name = MountPointProp
       /\ last.value = <<"/", "new">>
       /\ last.source = <<"local">>
    THEN {ch \in [A : 1..Len(heap), B : 1..Len(heap), C : 1..Len(heap)] :
            /\ ch.A \in SeqRange(last.heap[last.d].children)
            /\ ch.B \in SeqRange(last.heap[ch.A].children)
            /\ ch.C \in SeqRange(last.heap[ch.B].children)
            /\ last.heap[ch.A].sources.Mountpoint = <<"inherited">>
            /\ last.heap[ch.B].sources.Mountpoint = <<"local">>
            /\ last.heap[ch.B].Mountpoint = <<"/", "custom">>
            /\ last.heap[ch.C].sources.Mountpoint = <<"inherited">>}
    ELSE {}

\* C8 as stated: in a chain root, A, B, C with B's mountpoint set locally to
\* /custom, setProperty(root, mountpoint, "/new", "local") leaves B at /custom
\* and rewrites C's mountpoint to /new joined with C's suffix relative to B's
\* old base.
C8_AsStated ==
    \A ch \in CustomChains :
        /\ heap[ch.B].Mountpoint = <<"/", "custom">>
        /\ heap[ch.C].Mountpoint =
             FilepathJoin(<<"/", "new">>,
                          TrimPrefix(last.heap[ch.C].Mountpoint, last.heap[ch.B].Mountpoint))

\* C8, amended: in a chain root, A, B, C with B's mountpoint set locally to
\* /custom, setProperty(root, mountpoint, "/new", "local") leaves B's
\* mountpoint at /custom and leaves C's mountpoint and provenance as they
\* were (C still inherits from B).
C8_OverriddenBranchKept ==
    \A ch \in CustomChains :
        /\ heap[ch.B].Mountpoint = <<"/", "custom">>
        /\ heap[ch.B].sources.Mountpoint = <<"local">>
        /\ heap[ch.C].Mountpoint = last.heap[ch.C].Mountpoint
        /\ heap[ch.C].sources.Mountpoint = <<"inherited">>

\* the call of the claim was made on such a chain, and A moved under /new
C8_Witness ==
    \E ch \in CustomChains :
        /\ last.heap[ch.C].Mountpoint = <<"/", "custom", "/", "c">>
        /\ heap[ch.A].Mountpoint = <<"/", "new", "/", "a">>

\* C9: for every descendant the cascade of setProperty(D, mountpoint, new, s)
\* has to rewrite, at every depth, whose mountpoint was D's old mountpoint
\* followed by a suffix, the mountpoint is now the path join of new and that
\* suffix; for every other property each such descendant holds the value
\* given in the call (normalised) and its provenance is inherited.
C9_CascadeValues ==
    SetPropertyReturned =>
        \A x \in Cascaded :
            IF last.name = MountPointProp
            THEN HasPrefix(last.heap[x].Mountpoint, last.heap[last.d].Mountpoint) =>
                   heap[x].Mountpoint =
                     FilepathJoin(last.value,
                                  SubSeq(last.heap[x].Mountpoint,
                                         Len(last.heap[last.d].Mountpoint) + 1,
                                         Len(last.heap[x].Mountpoint)))
            ELSE /\ getPropertyFromName(heap[x], last.name).value =
                      Normalised(last.name, last.value)
                 /\ heap[x].sources[FieldOf(last.name)] = <<"inherited">>

\* a mountpoint call that moved a grandchild of D, and before it held the
\* path /r/a/b under D's /r
C9_Witness ==
    /\ SetPropertyReturned
    /\ last.name = MountPointProp
    /\ last.heap[last.d].Mountpoint = <<"/", "r">>
    /\ \E x \in Cascaded :
         /\ Parent(heap, x) # last.d
         /\ last.heap[x].Mountpoint = <<"/", "r", "/", "a", "/", "b">>
         /\ heap[x].Mountpoint = <<"/", "new", "/", "a", "/", "b">>

\* the nearest strict ancestor of x that does not inherit the property (0 if
\* there is none)
RECURSIVE SettingAncestor(_, _, _)
SettingAncestor(h, x, name) ==
    LET q == Parent(h, x)
    IN  IF q = 0 THEN 0
        ELSE IF h[q].sources[FieldOf(name)] # <<"inherited">> THEN q
        ELSE SettingAncestor(h, q, name)

\* C10: in every state reached by successful setProperty calls with the
\* provenance local, every dataset that is no snapshot and whose provenance
\* for a property is inherited holds the value of its nearest strict ancestor
\* whose provenance for it is not inherited (for mountpoint: that ancestor's
\* mountpoint joined with the dataset's name relative to the ancestor's).
C10_InheritedResolvesToAncestor ==
    pc = "ready" =>
        \A x \in TreeNodes :
            \A name \in NamesFor(heap[x]) :
                LET anc == SettingAncestor(heap, x, name) IN
                (/\ ~heap[x].IsSnapshot
                 /\ heap[x].sources[FieldOf(name)] = <<"inherited">>
                 /\ anc # 0) =>
                    IF name = MountPointProp
                    THEN heap[x].Mountpoint =
                           FilepathJoin(heap[anc].Mountpoint,
                                        TrimPrefix(heap[x].Name, heap[anc].Name))
                    ELSE getPropertyFromName(heap[x], name).value =
                           getPropertyFromName(heap[anc], name).value

-----------------------------------------------------------------------------
(* The same setProperty call made twice in a row *)

\* the values of the repeated calls: those of ValuesFor and, for a mountpoint,
\* a path the backend takes as it is given, here with a "." component
ValuesTwice(name) ==
    IF name \in {MountPointProp, SnapshotMountpointProp}
    THEN ValuesFor(name) \cup {<<"/", "new", "/", ".">>}
    ELSE ValuesFor(name)

MaxRepeats == 1

\* the first call: setProperty(d, name, value, "local"), the backend accepting
SetPropertyFirst ==
    /\ pc = "ready"
    /\ calls = 0
    /\ \E d \in TreeNodes :
         \E name \in NamesFor(heap[d]) :
           \E value \in ValuesTwice(name) :
             LET r == setProperty(heap, d, name, value, SrcLocal, FALSE) IN
               /\ heap' = r.heap
               /\ pc' = IF r.panic THEN "panic" ELSE "ready"
               /\ last' = [op |-> "setProperty", d |-> d, name |-> name,
                           value |-> value, source |-> SrcLocal,
                           backendFails |-> FALSE,
                           err |-> r.err, panic |-> r.panic,
                           heap |-> heap, reg |-> allDatasets]
    /\ calls' = 1
    /\ UNCHANGED <<scan, allDatasets, root, run>>

\* the call that has just returned nil, made again with the same arguments
SetPropertyAgain ==
    /\ pc = "ready"
    /\ calls \in 1..MaxRepeats
    /\ last.op \in {"setProperty", "setPropertyAgain"}
    /\ ~last.err
    /\ LET r == setProperty(heap, last.d, last.name, last.value, last.source, FALSE) IN
         /\ heap' = r.heap
         /\ pc' = IF r.panic THEN "panic" ELSE "ready"
         /\ last' = [last EXCEPT !.op = "setPropertyAgain", !.err = r.err,
                                 !.panic = r.panic, !.heap = heap]
    /\ calls' = calls + 1
    /\ UNCHANGED <<scan, allDatasets, root, run>>

NextTwice == SetPropertyFirst \/ SetPropertyAgain

SpecTwice == InitProp /\ [][NextTwice]_vars

\* what the model shows of a dataset: its name, its property values and their
\* provenance, its children
Observable(d) ==
    [Name |-> d.Name, IsSnapshot |-> d.IsSnapshot, children |-> d.children,
     Mountpoint |-> d.Mountpoint, CanMount |-> d.CanMount, Mounted |-> d.Mounted,
     BootFS |-> d.BootFS, LastUsed |-> d.LastUsed,
     LastBootedKernel |-> d.LastBootedKernel, BootfsDatasets |-> d.BootfsDatasets,
     Origin |-> d.Origin, sources |-> d.sources]

\* C11: when setProperty(D, P, v, "local") is called a second time in a row
\* with the same arguments, every dataset (D and all its descendants
\* included) holds after the second call the values and provenance it held
\* after the first.
C11_SecondCallChangesNothing ==
    (last.op = "setPropertyAgain" /\ pc = "ready" /\ ~last.err) =>
        \A a \in 1..Len(heap) : Observable(heap[a]) = Observable(last.heap[a])

\* C11 for the values that are clean paths (those of ValuesFor)
C11_CleanValuesOnly ==
    (last.op = "setPropertyAgain" /\ pc = "ready" /\ ~last.err
     /\ last.value \in ValuesFor(last.name)) =>
        \A a \in 1..Len(heap) : Observable(heap[a]) = Observable(last.heap[a])

-----------------------------------------------------------------------------
(* setProperty step by step: the goroutine that enumerates the inheriting   *)
(* descendants (lines 376-379) and the loop that applies the change to each *)
(* dataset received from the unbuffered channel children (lines 381-417)    *)

MaxPipeCalls == 1

\* the trees of the step-by-step calls: those of PropScan under /r
PipeScans == {PropScan(bLocal, rootSet, <<"/", "r">>) : bLocal \in BOOLEAN, rootSet \in BOOLEAN}

InitPipe == \E z \in PipeScans : Built(z)

\* a call of getInheritedChildren(d): "for _, c := range d.children" takes
\* d.children once, i is the turn of the loop
Frame(h, d) == [node |-> d, kids |-> h[d].children, i |-> 1]

\* a goroutine that sends c and does not call getInheritedChildren(c)
DescendNever(stack, h, c) == stack

\* line 373: getInheritedChildren(c)
Descend(stack, h, c) == Append(stack, Frame(h, c))

\* lines 402-404: value = "0", the assignment the later turns of the loop see
ValueAfterTurn(name, value) ==
    IF name = LastUsedProp /\ value = EmptyStr THEN Str("0") ELSE value

\* lines 304-379: the backend write, the refresh of the dataset itself, the
\* channel and the goroutine.  A failed write or refresh returns at once.
PipeBegin ==
    /\ pc = "ready"
    /\ run.state \in {"idle", "returned"}
    /\ calls < MaxPipeCalls
    /\ \E d \in TreeNodes :
         \E name \in NamesFor(heap[d]) :
           \E value \in ValuesFor(name) :
             LET written == BackendWrite(heap[d], name, value, SrcLocal)
                 r == refreshRoot(written, name, value, SrcLocal)
             IN  /\ last' = [op |-> "setProperty", d |-> d, name |-> name,
                             value |-> value, source |-> SrcLocal,
                             backendFails |-> FALSE,
                             err |-> r.err, panic |-> FALSE,
                             heap |-> heap, reg |-> allDatasets]
                 /\ IF r.err
                    THEN /\ heap' = [heap EXCEPT ![d] = written]
                         /\ run' = NoRun
                    ELSE /\ heap' = [heap EXCEPT ![d] = r.d]
                         /\ run' = [state |-> "running",
                                    name |-> name,
                                    value |-> value,
                                    oldMountPoint |-> IF name = MountPointProp
                                                      THEN heap[d].Mountpoint
                                                      ELSE EmptyStr,
                                    stack |-> <<Frame(heap, d)>>,
                                    prod |-> "loop",
                                    sending |-> 0,
                                    closed |-> FALSE,
                                    cons |-> "recv",
                                    got |-> 0,
                                    applied |-> <<>>,
                                    lateReads |-> {}]
    /\ calls' = calls + 1
    /\ UNCHANGED <<scan, allDatasets, root, pc>>

\* the frame of the innermost getInheritedChildren call
Top == run.stack[Len(run.stack)]

\* stack with its innermost frame at the next turn of its loop
Advance(stack) == [stack EXCEPT ![Len(stack)].i = @ + 1]

\* lines 359-371: the goroutine looks at the next child c: it reads c's
\* provenance as it is now, and either passes c over or is about to send it
Produce ==
    /\ run.state = "running"
    /\ run.prod = "loop"
    /\ Top.i <= Len(Top.kids)
    /\ LET c == Top.kids[Top.i]
           late == IF c = run.got \/ c \in SeqRange(run.applied) THEN {c} ELSE {} IN
         IF Inherits(heap[c], run.name)
         THEN run' = [run EXCEPT !.prod = "send", !.sending = c,
                                 !.lateReads = @ \cup late]
         ELSE run' = [run EXCEPT !.stack = Advance(@), !.lateReads = @ \cup late]
    /\ UNCHANGED <<scan, heap, allDatasets, root, pc, last, calls>>

\* line 372 meets line 381: the send and the receive on the unbuffered channel
Handoff ==
    /\ run.state = "running"
    /\ run.prod = "send"
    /\ run.cons = "recv"
    /\ run' = [run EXCEPT !.prod = "enter", !.cons = "apply", !.got = run.sending]
    /\ UNCHANGED <<scan, heap, allDatasets, root, pc, last, calls>>

\* line 373: the goroutine, its send done, enters getInheritedChildren(c) and
\* reads c's child list
ProducerEnter ==
    /\ run.state = "running"
    /\ run.prod = "enter"
    /\ run' = [run EXCEPT !.prod = "loop", !.sending = 0,
                          !.stack = Descend(@, heap, run.sending)]
    /\ UNCHANGED <<scan, heap, allDatasets, root, pc, last, calls>>

\* line 375: a getInheritedChildren call is through its children and returns
\* to the loop that called it; the outermost one returns to line 378
ProducerReturn ==
    /\ run.state = "running"
    /\ run.prod = "loop"
    /\ Top.i > Len(Top.kids)
    /\ LET rest == SubSeq(run.stack, 1, Len(run.stack) - 1) IN
         IF rest = <<>>
         THEN run' = [run EXCEPT !.prod = "close"]
         ELSE run' = [run EXCEPT !.stack = Advance(rest)]
    /\ UNCHANGED <<scan, heap, allDatasets, root, pc, last, calls>>

\* line 378: close(children)
ProducerClose ==
    /\ run.state = "running"
    /\ run.prod = "close"
    /\ run' = [run EXCEPT !.prod = "done", !.closed = TRUE]
    /\ UNCHANGED <<scan, heap, allDatasets, root, pc, last, calls>>

\* the turn of the loop for the dataset received
Turn == applyToChild(heap[run.got], run.name, run.value, run.oldMountPoint)

\* lines 382-416: the body of the loop for the dataset received; a last-used
\* value that is no integer panics
ConsumerApply ==
    /\ run.state = "running"
    /\ run.cons = "apply"
    /\ heap' = [heap EXCEPT ![run.got] = Turn.d]
    /\ pc' = IF Turn.panic THEN "panic" ELSE pc
    /\ last' = [last EXCEPT !.panic = Turn.panic]
    /\ run' = IF Turn.panic
              THEN [run EXCEPT !.state = "panicked"]
              ELSE [run EXCEPT !.cons = "recv", !.got = 0,
                               !.applied = Append(@, run.got),
                               !.value = ValueAfterTurn(run.name, @)]
    /\ UNCHANGED <<scan, allDatasets, root, calls>>

\* line 381 on the closed channel, line 419: the loop ends, setProperty returns
ConsumerReturn ==
    /\ run.state = "running"
    /\ run.cons = "recv"
    /\ run.closed
    /\ run' = [run EXCEPT !.state = "returned"]
    /\ UNCHANGED <<scan, heap, allDatasets, root, pc, last, calls>>

NextPipe ==
    \/ PipeBegin
    \/ Produce
    \/ Handoff
    \/ ProducerEnter
    \/ ProducerReturn
    \/ ProducerClose
    \/ ConsumerApply
    \/ ConsumerReturn

SpecPipe == InitPipe /\ [][NextPipe]_vars

\* a step of the call in flight, by its goroutine or by its loop
PipeStep ==
    \/ Produce
    \/ Handoff
    \/ ProducerEnter
    \/ ProducerReturn
    \/ ProducerClose
    \/ ConsumerApply
    \/ ConsumerReturn

\* whether the goroutine or the loop can take a step: ENABLED PipeStep, read
\* off the guards of the seven steps
PipeCanStep ==
    /\ run.state = "running"
    /\ \/ run.prod \in {"loop", "enter", "close"}
       \/ run.prod = "send" /\ run.cons = "recv"
       \/ run.cons = "apply"
       \/ run.cons = "recv" /\ run.closed

\* the scheduler runs a goroutine whenever one of the two can run: weak
\* fairness of PipeStep, WF_vars(PipeStep), with its ENABLED written out
SpecPipeFair == SpecPipe /\ ([]<>(~PipeCanStep) \/ []<><<PipeStep>>_vars)

\* the sequential call: the traversal decided on the state before the call,
\* then the change applied to each dataset of it in turn
Sequential == setProperty(last.heap, last.d, last.name, last.value, last.source, FALSE)

\* the datasets of the sequential traversal, in depth-first order
SequentialOrder == getInheritedChildren(last.heap, last.d, last.name)

IsPrefix(p, q) == Len(p) <= Len(q) /\ SubSeq(q, 1, Len(p)) = p

\* C12: whatever the interleaving of the goroutine and the loop, the datasets
\* are applied in the order of the sequential depth-first traversal decided
\* on the provenance before the call, nothing else is applied, the state when
\* the call returns (or panics) is the state of the sequential call, and the
\* goroutine never reads the provenance of a dataset the loop has received.
C12_PipelineIsSequential ==
    run.state # "idle" =>
        /\ IsPrefix(run.applied, SequentialOrder)
        /\ run.lateReads = {}
        /\ run.state = "returned" =>
             /\ run.applied = SequentialOrder
             /\ heap = Sequential.heap
             /\ ~Sequential.panic
        /\ run.state = "panicked" =>
             /\ heap = Sequential.heap
             /\ Sequential.panic

\* a call that returned after the loop received and applied four datasets
\* and changed them
C12_Witness ==
    /\ run.state = "returned"
    /\ Len(run.applied) = 4
    /\ heap # last.heap

\* C13: every setProperty call whose backend write succeeded returns: while
\* it is in flight the goroutine or the loop can take a step, and it never
\* ends in the panic of the loop
C13_EveryCallReturns ==
    /\ run.state = "running" => PipeCanStep
    /\ run.state # "panicked"

\* a call in flight can always take a step: the hand-off never deadlocks
C13_NeverStuck == run.state = "running" => PipeCanStep

\* under fairness every call in flight returns
C13_EventuallyReturns == (run.state = "running") ~> (run.state = "returned")

\* every call returns unless the loop panics
C13_ReturnsUnlessPanic ==
    (run.state = "running") ~> (run.state \in {"returned", "panicked"})

\* when the call has returned the goroutine is done, the channel is closed
\* and every dataset sent was applied
C13_DrainedOnReturn ==
    run.state = "returned" =>
        /\ run.prod = "done"
        /\ run.closed
        /\ run.sending = 0 /\ run.got = 0
        /\ run.applied = SequentialOrder

-----------------------------------------------------------------------------
(* setProperty when the backend refuses the write *)

\* C14: when the backend write of setProperty(D, P, v, s) fails, setProperty
\* returns the error and every dataset is as before the call: value and
\* provenance of D and of every descendant, every cached backend property,
\* names, child lists and the registry; no descendant was given the value.
C14_FailedWriteChangesNothing ==
    (last.op = "setProperty" /\ last.backendFails) =>
        /\ last.err
        /\ ~last.panic
        /\ pc = "ready"
        /\ heap = last.heap
        /\ allDatasets = last.reg

\* a refused write of a new value for a property that descendants of D
\* inherit
C14_Witness ==
    /\ last.op = "setProperty"
    /\ last.backendFails
    /\ Cascaded # {}
    /\ getPropertyFromName(last.heap[last.d], last.name).value #
         Normalised(last.name, last.value)

-----------------------------------------------------------------------------
(* checkSnapshotHierarchyIntegrity *)

\* a check that hands its own flag down instead of what it found
FlagHandedDown(found, snapshotOnParent) == snapshotOnParent

\* line 267: the flag given to the children is whether d has the snapshot
FlagForChildren(found, snapshotOnParent) == found

\* d.checkSnapshotHierarchyIntegrity(snapshotName, snapshotOnParent) on heap
\* h: whether it returns an error and the snapshot the error names
RECURSIVE checkSnapshotHierarchyIntegrity(_, _, _, _)
checkSnapshotHierarchyIntegrity(h, d, snapshotName, snapshotOnParent) ==
    LET kids   == h[d].children
        wanted == h[d].Name \o <<"@">> \o snapshotName
        found  == \E i \in 1..Len(kids) : h[kids[i]].Name = wanted
        below[i \in 0..Len(kids)] ==
            IF i = 0 THEN [err |-> FALSE, names |-> EmptyStr]
            ELSE IF below[i - 1].err THEN below[i - 1]
            ELSE IF h[kids[i]].IsSnapshot THEN below[i - 1]
            ELSE checkSnapshotHierarchyIntegrity(
                     h, kids[i], snapshotName, FlagForChildren(found, snapshotOnParent))
    IN  IF found /\ ~snapshotOnParent
        THEN [err |-> TRUE, names |-> wanted]
        ELSE below[Len(kids)]

MaxChecks == 1

\* one call of checkSnapshotHierarchyIntegrity, on any dataset of the tree
CheckSnapshotHierarchyIntegrity ==
    /\ pc = "ready"
    /\ calls < MaxChecks
    /\ \E d \in TreeNodes, snapshotName \in {<<"s">>, <<"t">>}, flag \in BOOLEAN :
         LET r == checkSnapshotHierarchyIntegrity(heap, d, snapshotName, flag) IN
           last' = [op |-> "checkSnapshotHierarchyIntegrity", d |-> d,
                    snapshotName |-> snapshotName, flag |-> flag,
                    err |-> r.err, names |-> r.names]
    /\ calls' = calls + 1
    /\ UNCHANGED <<scan, heap, allDatasets, root, pc, run>>

\* a pool p holding p/a, p/a/b below it, and p/d, each with a snapshot @s
\* when has says so; p/a also has the snapshot @t
SnapScan(has) ==
    LET nP == Str("p")
        nA == <<"p", "/", "a">>
        nB == nA \o <<"/", "b">>
        nD == <<"p", "/", "d">>
        snap(n, leaf) == SnapHandle(n \o <<"@", leaf>>, <<"3", "0">>, NoUserProperties)
        snaps(n, k) == IF has[k] THEN <<snap(n, "s")>> ELSE <<>>
        fs(n, children) ==
            FsHandle(n, <<"/">> \o n, InheritedFrom(nP), EmptyStr, NoUserProperties, children)
    IN  FsHandle(nP, Str("/"), SrcLocal, EmptyStr, NoUserProperties,
                 snaps(nP, 1)
                 \o << fs(nA, <<snap(nA, "t")>> \o snaps(nA, 2)
                              \o << fs(nB, snaps(nB, 3)) >>),
                       fs(nD, snaps(nD, 4)) >>)

SnapScans == {SnapScan(has) : has \in [1..4 -> BOOLEAN]}

InitSnap == \E z \in SnapScans : Built(z)

NextSnap == CheckSnapshotHierarchyIntegrity

SpecSnap == InitSnap /\ [][NextSnap]_vars

\* the datasets of the subtree of a other than snapshots, in depth-first
\* pre-order
RECURSIVE PreOrder(_, _)
PreOrder(h, a) ==
    LET kids == h[a].children
        upTo[i \in 0..Len(kids)] ==
            IF i = 0 THEN <<a>>
            ELSE upTo[i - 1] \o (IF h[kids[i]].IsSnapshot THEN <<>>
                                 ELSE PreOrder(h, kids[i]))
    IN  IF h[a].IsSnapshot THEN <<>> ELSE upTo[Len(kids)]

\* whether dataset x has the snapshot x@leaf among its children
HasSnapshot(h, x, leaf) ==
    \E c \in SeqRange(h[x].children) :
        h[c].IsSnapshot /\ h[c].Name = h[x].Name \o <<"@">> \o leaf

\* whether x breaks the rule in the last check: x is the dataset checked and
\* has the snapshot while the flag is false, or x is below it and has the
\* snapshot while its parent has not
Offends(x) ==
    /\ HasSnapshot(heap, x, last.snapshotName)
    /\ IF x = last.d THEN ~last.flag
       ELSE ~HasSnapshot(heap, Parent(heap, x), last.snapshotName)

\* the offending datasets of the last check, in depth-first pre-order
Offenders == SelectSeq(PreOrder(heap, last.d), Offends)

\* C15: checkSnapshotHierarchyIntegrity(name, flag) on D returns an error
\* exactly when D has D@name while flag is false or a dataset X below D has
\* X@name while X's parent has no such snapshot; the error names X@name for
\* the first such dataset in depth-first order.
C15_IntegrityErrorIffOffender ==
    last.op = "checkSnapshotHierarchyIntegrity" =>
        /\ last.err <=> Offenders # <<>>
        /\ last.err => last.names = heap[Offenders[1]].Name \o <<"@">> \o last.snapshotName

\* a check from the pool, flag true, that failed with two offenders below it
C15_Witness ==
    /\ last.op = "checkSnapshotHierarchyIntegrity"
    /\ last.d = root
    /\ last.flag
    /\ last.err
    /\ Len(Offenders) >= 2

\* a check that succeeded although a dataset below has the snapshot: its
\* parent has it too
C15_WitnessAccepted ==
    /\ last.op = "checkSnapshotHierarchyIntegrity"
    /\ ~last.err
    /\ \E x \in SeqRange(PreOrder(heap, last.d)) :
         x # last.d /\ HasSnapshot(heap, x, last.snapshotName)

-----------------------------------------------------------------------------
(* checkNoClone *)

\* what the backend answers when asked for the clones of a dataset: none,
\* some, or an error
CloneAnswers == {"none", "some", "fail"}

\* a check that never finds a clone
HasClonesNever(answer) == FALSE

\* line 281: len(clones) > 0
HasClones(answer) == answer = "some"

\* d.checkNoClone() on heap h, the backend answering d.dZFS.Clones() as
\* answers says: whether it returns an error, the dataset the error names and
\* the datasets whose clones were asked for, in order
RECURSIVE checkNoClone(_, _, _)
checkNoClone(h, d, answers) ==
    LET kids == h[d].children
        below[i \in 0..Len(kids)] ==
            IF i = 0 THEN [err |-> FALSE, names |-> EmptyStr, queried |-> <<d>>]
            ELSE IF below[i - 1].err THEN below[i - 1]
            ELSE LET r == checkNoClone(h, kids[i], answers)
                 IN  [r EXCEPT !.queried = below[i - 1].queried \o @]
    IN  IF answers[d] = "fail" \/ HasClones(answers[d])
        THEN [err |-> TRUE, names |-> h[d].Name, queried |-> <<d>>]
        ELSE below[Len(kids)]

\* the answers of a backend on which at most two datasets of the subtree of
\* d have clones or cannot be asked
AnswersBelow(h, d) ==
    {ans \in [1..Len(h) -> CloneAnswers] :
        /\ \A x \in 1..Len(h) : ans[x] # "none" => x \in Subtree(h, d)
        /\ Cardinality({x \in 1..Len(h) : ans[x] # "none"}) <= 2}

\* one call of checkNoClone, on any dataset of the tree
CheckNoClone ==
    /\ pc = "ready"
    /\ calls < MaxChecks
    /\ \E d \in TreeNodes :
         \E answers \in AnswersBelow(heap, d) :
           LET r == checkNoClone(heap, d, answers) IN
             last' = [op |-> "checkNoClone", d |-> d, answers |-> answers,
                      err |-> r.err, names |-> r.names, queried |-> r.queried]
    /\ calls' = calls + 1
    /\ UNCHANGED <<scan, heap, allDatasets, root, pc, run>>

NextClone == CheckNoClone

SpecClone == InitPipe /\ [][NextClone]_vars

\* the datasets of the subtree of a, snapshots included, in depth-first
\* pre-order
RECURSIVE PreOrderAll(_, _)
PreOrderAll(h, a) ==
    LET kids == h[a].children
        upTo[i \in 0..Len(kids)] ==
            IF i = 0 THEN <<a>> ELSE upTo[i - 1] \o PreOrderAll(h, kids[i])
    IN  upTo[Len(kids)]

\* the datasets of the last check that have clones or whose query fails, in
\* depth-first pre-order
WithClones == SelectSeq(PreOrderAll(heap, last.d), LAMBDA x : last.answers[x] # "none")

\* the index of x in the sequence q
IndexIn(q, x) == CHOOSE i \in 1..Len(q) : q[i] = x

\* C16: checkNoClone on D fails exactly when D or a dataset of its subtree
\* (filesystem or snapshot) has clones or its clone query fails; the error
\* names the first such dataset in pre-order, the datasets queried are those
\* up to it in pre-order and none after it; a check that succeeds has queried
\* the whole subtree.
C16_CloneErrorIffClone ==
    last.op = "checkNoClone" =>
        LET order == PreOrderAll(heap, last.d) IN
        /\ last.err <=> WithClones # <<>>
        /\ last.err =>
             /\ last.names = heap[WithClones[1]].Name
             /\ last.queried = SubSeq(order, 1, IndexIn(order, WithClones[1]))
        /\ ~last.err => last.queried = order

\* a check that failed on a snapshot with clones, after it had asked for the
\* clones of the datasets before it and before it reached a later dataset
\* whose query would have failed
C16_Witness ==
    /\ last.op = "checkNoClone"
    /\ last.err
    /\ Len(WithClones) = 2
    /\ heap[WithClones[1]].IsSnapshot
    /\ last.answers[WithClones[1]] = "some"
    /\ last.answers[WithClones[2]] = "fail"
    /\ Len(last.queried) >= 3

-----------------------------------------------------------------------------
(* The panic of the cascade *)

\* C17: no setProperty call reaches the panic of line 408: a last-used value
\* that is no integer makes setProperty return an error before the cascade
\* starts.
C17_PanicUnreachable ==
    /\ pc # "panic"
    /\ (last.op = "setProperty" /\ ~last.backendFails
        /\ last.name = LastUsedProp /\ ~RootLastUsedOfValue(heap[last.d], last.value).ok)
           => last.err

-----------------------------------------------------------------------------
(* The user properties of a snapshot as the backend holds them *)

MaxPacked == 3

\* the strings of at most n atoms of A
RECURSIVE StringsUpTo(_, _)
StringsUpTo(A, n) ==
    IF n = 0 THEN {<<>>}
    ELSE LET shorter == StringsUpTo(A, n - 1)
         IN  shorter \cup {Append(s, a) : s \in shorter, a \in A}

\* what a user property of a snapshot can hold: any short string of these
\* atoms (packed or not), under any source tag the backend gives
PackedAtoms == {"v", ":", "local", "inherited", "-"}

SourceTags == {<<"local">>, <<"default">>, <<"inherited from ", "p">>, <<"-">>, <<"none">>}

Records == {Property(v, t) : v \in StringsUpTo(PackedAtoms, MaxPacked), t \in SourceTags}

\* the scan of a snapshot p@s that holds rec for each of its user properties
RecordScan(rec) ==
    SnapHandle(<<"p", "@", "s">>, <<"3", "0">>, [p \in UserPropNames |-> rec])

\* newDatasetTree on the snapshot, with what getUserPropertyFromSys gives for
\* each user property of the handle
RefreshSnapshot ==
    /\ pc = "scan"
    /\ LET r == newDatasetTree(scan, heap, allDatasets) IN
         /\ heap' = r.heap
         /\ allDatasets' = r.reg
         /\ root' = r.node
         /\ pc' = IF r.err THEN "failed" ELSE "ready"
         /\ last' = [op |-> "RefreshProperties", err |-> r.err,
                     read |-> [p \in UserPropNames |-> getUserPropertyFromSys(p, scan)]]
    /\ UNCHANGED <<scan, calls, run>>

InitRead ==
    /\ scan \in {RecordScan(rec) : rec \in Records}
    /\ heap = <<>>
    /\ allDatasets = EmptyReg
    /\ root = 0
    /\ pc = "scan"
    /\ last = NoCall
    /\ calls = 0
    /\ run = NoRun

NextRead == RefreshSnapshot

SpecRead == InitRead /\ [][NextRead]_vars

\* the fields of Dataset.sources
SourceFields == {"Mountpoint", "CanMount", "BootFS", "LastUsed", "LastBootedKernel", "BootfsDatasets"}

\* C18: for a snapshot, whatever the record the backend holds,
\* getUserPropertyFromSys never returns the provenance "inherited", and after
\* RefreshProperties no provenance field of the snapshot is "inherited".
C18_SnapshotNeverInherited ==
    (last.op = "RefreshProperties" /\ ZIsSnapshot(scan)) =>
        /\ \A p \in UserPropNames : last.read[p].source # <<"inherited">>
        /\ pc = "ready" => \A f \in SourceFields : heap[root].sources[f] # <<"inherited">>

\* a record that is not local to the snapshot reads as absent
C18_NotLocalIsAbsent ==
    (last.op = "RefreshProperties" /\ ZIsSnapshot(scan)) =>
        \A p \in UserPropNames :
            scan.UserProperties[p].Source # <<"local">> =>
                last.read[p] = [value |-> <<>>, source |-> <<>>, err |-> FALSE]

-----------------------------------------------------------------------------
(* Freezing a property on a snapshot and reading it back *)

\* the values frozen: short strings, empty or with ":" in them
FrozenValues == StringsUpTo({"v", ":"}, MaxPacked)

\* the provenance the model can hold: local, default, inherited and the empty
\* marker of a property that is not set
Provenances == {<<"local">>, <<"default">>, <<"inherited">>, <<>>}

\* the snapshots of the tree
Snapshots == {a \in TreeNodes : heap[a].IsSnapshot}

\* setProperty(name, value, source) on a snapshot, the backend accepting, and
\* the user property it wrote read back from the handle by
\* getUserPropertyFromSys
Freeze ==
    /\ pc = "ready"
    /\ calls = 0
    /\ \E d \in Snapshots, source \in Provenances, value \in FrozenValues :
         \E name \in UserPropNames \ {LastUsedProp} :
           LET r == setProperty(heap, d, name, value, source, FALSE) IN
             /\ heap' = r.heap
             /\ pc' = IF r.panic THEN "panic" ELSE "ready"
             /\ last' = [op |-> "setProperty", d |-> d, name |-> name,
                         value |-> value, source |-> source,
                         backendFails |-> FALSE,
                         err |-> r.err, panic |-> r.panic,
                         heap |-> heap, reg |-> allDatasets,
                         written |-> r.heap[d].dZFS.UserProperties[name],
                         readBack |-> getUserPropertyFromSys(name, r.heap[d].dZFS)]
    /\ calls' = 1
    /\ UNCHANGED <<scan, allDatasets, root, run>>

NextFreeze == Freeze

SpecFreeze == InitPipe /\ [][NextFreeze]_vars

\* C19: the string setProperty writes for a snapshot, "<value>:<provenance>",
\* read back by getUserPropertyFromSys as a property local to the snapshot,
\* yields the value and the provenance of the call, for every value and for
\* the provenances local, default, inherited and the empty marker.
C19_RoundTrip ==
    (last.op = "setProperty" /\ ~last.err) =>
        /\ last.written = Property(last.value \o <<":">> \o last.source, <<"local">>)
        /\ ~last.readBack.err
        /\ last.readBack.value = last.value
        /\ last.readBack.source = last.source

\* C19 without the empty marker: the round trip of local, default and
\* inherited
C19_RoundTripOfSetProvenance ==
    (last.op = "setProperty" /\ ~last.err /\ last.source # <<>>) =>
        /\ last.written = Property(last.value \o <<":">> \o last.source, <<"local">>)
        /\ ~last.readBack.err
        /\ last.readBack.value = last.value
        /\ last.readBack.source = last.source

-----------------------------------------------------------------------------
(* The cached backend entry of a cascaded native property *)

\* the key of the handle's property cache for a native property name
\* (stringToProp's nativeProp on a dataset that is no snapshot)
CacheKey(name) ==
    IF name = CanmountProp THEN DatasetPropCanmount ELSE DatasetPropMountpoint

\* C20: after the cascade of a native property (mountpoint, canmount) the
\* cached backend entry of each collected descendant holds the value of its
\* new in-memory property (for mountpoint the rewritten path), and the source
\* tag of the entry is the one it had.
C20_CacheMatchesMemory ==
    (SetPropertyReturned /\ last.name \in {MountPointProp, CanmountProp}) =>
        \A x \in Cascaded :
            /\ heap[x].dZFS.Properties[CacheKey(last.name)].Value =
                 getPropertyFromName(heap[x], last.name).value
            /\ heap[x].dZFS.Properties[CacheKey(last.name)].Source =
                 last.heap[x].dZFS.Properties[CacheKey(last.name)].Source

\* C20 for mountpoint as the code has it: the cached entry holds the value of
\* the call, the source tag of the entry is the one it had
C20_MountpointCacheHoldsBase ==
    (SetPropertyReturned /\ last.name = MountPointProp) =>
        \A x \in Cascaded :
            /\ heap[x].dZFS.Properties[DatasetPropMountpoint].Value = last.value
            /\ heap[x].dZFS.Properties[DatasetPropMountpoint].Source =
                 last.heap[x].dZFS.Properties[DatasetPropMountpoint].Source

=============================================================================
